---- MODULE Spec2Model ----
(***************************************************************************)
(* criterion-linux-perf: a Criterion measurement backed by Linux perf      *)
(* hardware counters (src/src/lib.rs).                                     *)
(*                                                                         *)
(* The module models PerfMode's event/unit table, PerfMeasurement          *)
(* (new, default, start, end, add, zero, to_f64, formatter) and            *)
(* PerfFormatter (scale_values, scale_throughputs, scale_for_machines).    *)
(*                                                                         *)
(* Spec    drives one benchmark run: construct, zero, then iterations of   *)
(*         start / workload / end / add, then to_f64 and the formatter on  *)
(*         the measured sample.                                            *)
(* SpecFmt drives the formatter alone on arbitrary batches of values.      *)
(*                                                                         *)
(* u64 is modelled as WordBits-bit unsigned integers and f64 as exact      *)
(* rationals with inf and NaN; the integer-to-float conversion rounds to   *)
(* the 53-bit significand.  unwrap() on an Err panics; the panic           *)
(* unwinds (cargo ignores panic=abort for bench profiles), dropping the    *)
(* locals of the panicking frame, and ends the run.                        *)
(***************************************************************************)
EXTENDS Integers, Sequences, FiniteSets, TLC

VARIABLES
    pc,              \* position of the harness in the run
    built,           \* "none", "new" or "default": how the backend was built
    mode,            \* the PerfMode given to new(), "none" otherwise
    self,            \* the PerfMeasurement: [event, formatter]
    overflow_checks, \* build option: does u64 + panic on overflow
    counters,        \* OS counter resources, by identity
    nextId,          \* identity of the next OS counter resource
    held,            \* the Counter the harness holds between start and end
    pending,         \* the value end() returned, not yet accumulated
    total,           \* the accumulated Value
    reads,           \* the values end() returned, in order
    failed,          \* the OS step that failed, "none" if none did
    sample,          \* to_f64(total) once the run is measured
    exposed,         \* the formatter handed out by formatter()
    fmt              \* the last formatter call: arguments and results

vars == <<pc, built, mode, self, overflow_checks, counters, nextId, held,
          pending, total, reads, failed, sample, exposed, fmt>>

(***************************************************************************)
(* Bounds.                                                                 *)
(***************************************************************************)
MaxCounters == 3    \* start() calls explored in one run
MaxEvents == 2      \* hardware events counted during one iteration
WordBits == 2       \* bits of the modelled u64
MaxBatch == 2       \* length of a batch of values given to the formatter

RECURSIVE Pow2(_)
Pow2(n) == IF n = 0 THEN 1 ELSE 2 * Pow2(n - 1)

Modulus == Pow2(WordBits)
Word == 0 .. (Modulus - 1)

None == "none"

(***************************************************************************)
(* f64: non-negative rationals [n, d] in lowest terms; d = 0 encodes the   *)
(* two special values +inf (n = 1) and NaN (n = 0).                        *)
(***************************************************************************)
RECURSIVE GCD(_, _)
GCD(a, b) == IF b = 0 THEN a ELSE GCD(b, a % b)

Inf == [n |-> 1, d |-> 0]
NaN == [n |-> 0, d |-> 0]

Rat(n, d) == LET g == GCD(n, d) IN [n |-> n \div g, d |-> d \div g]

F(n) == Rat(n, 1)

IsFinite(x) == x.d # 0

\* IEEE-754 division restricted to non-negative operands.
FDiv(x, y) ==
    IF x = NaN \/ y = NaN THEN NaN
    ELSE IF x = Inf THEN (IF y = Inf THEN NaN ELSE Inf)
    ELSE IF y = Inf THEN F(0)
    ELSE IF y.n = 0 THEN (IF x.n = 0 THEN NaN ELSE Inf)
    ELSE Rat(x.n * y.d, x.d * y.n)

\* Significand bits of f64.
MANTISSA_DIGITS == 53

RECURSIVE BitLen(_)
BitLen(v) == IF v = 0 THEN 0 ELSE 1 + BitLen(v \div 2)

\* `v as f64`: exact while v fits the significand, else round to nearest,
\* ties to even.
AsF64(v) ==
    IF BitLen(v) <= MANTISSA_DIGITS THEN F(v)
    ELSE LET e == BitLen(v) - MANTISSA_DIGITS
             q == v \div Pow2(e)
             r == v % Pow2(e)
             half == Pow2(e - 1)
             up == r > half \/ (r = half /\ q % 2 = 1)
         IN F((IF up THEN q + 1 ELSE q) * Pow2(e))

(***************************************************************************)
(* PerfMode and the perf_mode! table.                                      *)
(***************************************************************************)
PerfMode == {"Instructions", "Cycles", "Branches", "BranchMisses",
             "CacheRefs", "CacheMisses", "BusCycles", "RefCycles"}

\* The $event column with RefCycles sharing the CPU_CYCLES selector.
PerfMode_event_nodistinct(m) ==
    CASE m = "Instructions" -> "INSTRUCTIONS"
      [] m = "Cycles"       -> "CPU_CYCLES"
      [] m = "Branches"     -> "BRANCH_INSTRUCTIONS"
      [] m = "BranchMisses" -> "BRANCH_MISSES"
      [] m = "CacheRefs"    -> "CACHE_REFERENCES"
      [] m = "CacheMisses"  -> "CACHE_MISSES"
      [] m = "BusCycles"    -> "BUS_CYCLES"
      [] m = "RefCycles"    -> "CPU_CYCLES"

\* PerfMode::event: the $event column of the table.
PerfMode_event(m) ==
    CASE m = "Instructions" -> "INSTRUCTIONS"
      [] m = "Cycles"       -> "CPU_CYCLES"
      [] m = "Branches"     -> "BRANCH_INSTRUCTIONS"
      [] m = "BranchMisses" -> "BRANCH_MISSES"
      [] m = "CacheRefs"    -> "CACHE_REFERENCES"
      [] m = "CacheMisses"  -> "CACHE_MISSES"
      [] m = "BusCycles"    -> "BUS_CYCLES"
      [] m = "RefCycles"    -> "REF_CPU_CYCLES"

\* The $unit column of the table.
PerfMode_unit(m) ==
    CASE m = "Instructions" -> "instructions"
      [] m = "Cycles"       -> "cycles"
      [] m = "Branches"     -> "branches"
      [] m = "BranchMisses" -> "branch misses"
      [] m = "CacheRefs"    -> "cache refs"
      [] m = "CacheMisses"  -> "cache misses"
      [] m = "BusCycles"    -> "bus cycles"
      [] m = "RefCycles"    -> "cycles"

\* PerfMode::formatter: the PerfFormatter of a mode.
PerfMode_formatter(m) ==
    [units               |-> PerfMode_unit(m),
     throughput_bytes    |-> PerfMode_unit(m) \o "/byte",
     throughput_elements |-> PerfMode_unit(m) \o "/element"]

(***************************************************************************)
(* PerfMeasurement construction.                                           *)
(***************************************************************************)
PerfMeasurement_new(m) ==
    [event |-> PerfMode_event(m), formatter |-> PerfMode_formatter(m)]

PerfMeasurement_default_cycles == PerfMeasurement_new("Cycles")

PerfMeasurement_default == PerfMeasurement_new("Instructions")

(***************************************************************************)
(* Measurement::add, zero, to_f64.                                         *)
(***************************************************************************)
\* v1 + v2 saturating at the largest u64.
add_saturating(v1, v2, checks) ==
    <<IF v1 + v2 >= Modulus THEN Modulus - 1 ELSE v1 + v2>>

\* v1 + v2 on u64: <<>> is a panic (overflow in a build that checks
\* overflow), <<v>> the value returned (wrapped in a build that does not).
add(v1, v2, checks) ==
    IF v1 + v2 >= Modulus /\ checks
    THEN <<>>
    ELSE <<(v1 + v2) % Modulus>>

zero_one == 0 + 1

zero == 0

to_f64(val) == AsF64(val)

(***************************************************************************)
(* PerfFormatter.                                                          *)
(***************************************************************************)
\* A time-like formatter: picks a magnitude prefix from the typical value.
scale_values_magnitude(f, typical_value, values) ==
    IF typical_value.n >= 100 * typical_value.d
    THEN [label  |-> "K" \o f.units,
          values |-> [i \in 1 .. Len(values) |-> FDiv(values[i], F(100))]]
    ELSE [label |-> f.units, values |-> values]

scale_values(f, typical_value, values) ==
    [label |-> f.units, values |-> values]

\* BytesDecimal scaled by a decimal factor on top of the byte count.
scale_throughputs_confused(f, typical_value, throughput, values) ==
    LET by(n) == [i \in 1 .. Len(values) |-> FDiv(values[i], AsF64(n))]
    IN CASE throughput.kind = "Bytes" ->
              [label |-> f.throughput_bytes, values |-> by(throughput.n)]
         [] throughput.kind = "BytesDecimal" ->
              [label |-> f.throughput_bytes, values |-> by(throughput.n * 10)]
         [] throughput.kind = "Elements" ->
              [label |-> f.throughput_elements, values |-> by(throughput.n)]

scale_throughputs(f, typical_value, throughput, values) ==
    LET by(n) == [i \in 1 .. Len(values) |-> FDiv(values[i], AsF64(n))]
    IN CASE throughput.kind = "Bytes" ->
              [label |-> f.throughput_bytes, values |-> by(throughput.n)]
         [] throughput.kind = "BytesDecimal" ->
              [label |-> f.throughput_bytes, values |-> by(throughput.n)]
         [] throughput.kind = "Elements" ->
              [label |-> f.throughput_elements, values |-> by(throughput.n)]

scale_for_machines(f, values) ==
    [label |-> f.units, values |-> values]

(***************************************************************************)
(* State of a run.                                                         *)
(***************************************************************************)
UnbuiltFormatter ==
    [units |-> None, throughput_bytes |-> None, throughput_elements |-> None]

Unbuilt == [event |-> None, formatter |-> UnbuiltFormatter]

\* An OS counter resource: ops is every perf call made on it, in order.
FreeCounter ==
    [state |-> "free", kind |-> None, count |-> 0, ops |-> <<>>,
     closedBy |-> None, ends |-> 0]

Op(name, ok) == [op |-> name, ok |-> ok]

NoThroughput == [kind |-> None, n |-> 0]

NoCall ==
    [op |-> None, typical |-> F(0), throughput |-> NoThroughput,
     input |-> <<>>, output |-> <<>>, label |-> None]

Init ==
    /\ pc = "new"
    /\ built = None
    /\ mode = None
    /\ self = Unbuilt
    /\ overflow_checks \in BOOLEAN
    /\ counters = [i \in 1 .. MaxCounters |-> FreeCounter]
    /\ nextId = 1
    /\ held = 0
    /\ pending = <<>>
    /\ total = 0
    /\ reads = <<>>
    /\ failed = None
    /\ sample = <<>>
    /\ exposed = UnbuiltFormatter
    /\ fmt = NoCall

(***************************************************************************)
(* Construction: PerfMeasurement::new(mode) and ::default().               *)
(***************************************************************************)
New(m) ==
    /\ pc = "new"
    /\ self' = PerfMeasurement_new(m)
    /\ built' = "new"
    /\ mode' = m
    /\ pc' = "ready"
    /\ UNCHANGED <<overflow_checks, counters, nextId, held, pending, total,
                   reads, failed, sample, exposed, fmt>>

Default ==
    /\ pc = "new"
    /\ self' = PerfMeasurement_default
    /\ built' = "default"
    /\ mode' = None
    /\ pc' = "ready"
    /\ UNCHANGED <<overflow_checks, counters, nextId, held, pending, total,
                   reads, failed, sample, exposed, fmt>>

(***************************************************************************)
(* Measurement::start.                                                     *)
(***************************************************************************)
\* Builder::new().kind(kind).build() then enable(), on resource id.
\* A failed build allocates nothing; a failed enable panics with the opened
\* counter a local of start(), which the unwinding drops.
start_with(id, kind, build_ok, enable_ok) ==
    /\ pc = "idle"
    /\ nextId <= MaxCounters
    /\ IF ~build_ok
       THEN /\ failed' = "build"
            /\ pc' = "aborted"
            /\ UNCHANGED <<counters, nextId, held>>
       ELSE LET opened == [counters[id] EXCEPT
                               !.state = "open",
                               !.kind = kind,
                               !.ops = Append(@, Op("open", TRUE))]
            IN /\ nextId' = nextId + 1
               /\ IF ~enable_ok
                  THEN /\ counters' = [counters EXCEPT ![id] =
                              [opened EXCEPT
                                   !.ops = Append(@, Op("enable", FALSE)),
                                   !.state = "closed",
                                   !.closedBy = "start"]]
                       /\ failed' = "enable"
                       /\ pc' = "aborted"
                       /\ UNCHANGED held
                  ELSE /\ counters' = [counters EXCEPT ![id] =
                              [opened EXCEPT
                                   !.ops = Append(@, Op("enable", TRUE)),
                                   !.state = "enabled"]]
                       /\ held' = id
                       /\ pc' = "started"
                       /\ UNCHANGED failed
    /\ UNCHANGED <<built, mode, self, overflow_checks, pending, total, reads,
                   sample, exposed, fmt>>

\* start() handing out the resource of the previous iteration again.
start_reuse(build_ok, enable_ok) ==
    start_with(IF nextId > 1 THEN nextId - 1 ELSE nextId, self.event,
               build_ok, enable_ok)

\* start() hard-coded to the instructions event.
start_hardcoded(build_ok, enable_ok) ==
    start_with(nextId, "INSTRUCTIONS", build_ok, enable_ok)

start(build_ok, enable_ok) ==
    start_with(nextId, self.event, build_ok, enable_ok)

Start == \E build_ok, enable_ok \in BOOLEAN : start(build_ok, enable_ok)

\* The benchmarked routine runs; the enabled counter counts its events.
Workload ==
    /\ pc = "started"
    /\ \E n \in 0 .. MaxEvents :
          counters' = [counters EXCEPT ![held].count = @ + n]
    /\ pc' = "ran"
    /\ UNCHANGED <<built, mode, self, overflow_checks, nextId, held, pending,
                   total, reads, failed, sample, exposed, fmt>>

(***************************************************************************)
(* Measurement::end.                                                       *)
(***************************************************************************)
\* The Counter is moved into end(): whether end() returns or panics, the
\* Counter is dropped there, which releases the OS resource.
Dropped(c, by) ==
    [c EXCEPT !.state = "closed", !.closedBy = by, !.ends = @ + 1]

\* end() that borrows the counter: it stays with the caller, still open.
end_borrowing(disable_ok, read_ok) ==
    /\ pc = "ran"
    /\ LET c == counters[held]
       IN IF ~disable_ok
          THEN /\ counters' = [counters EXCEPT ![held] =
                      Dropped([c EXCEPT !.ops = Append(@, Op("disable", FALSE))],
                              "end")]
               /\ failed' = "disable"
               /\ pc' = "aborted"
               /\ held' = 0
               /\ UNCHANGED <<pending, reads>>
          ELSE IF ~read_ok
          THEN /\ counters' = [counters EXCEPT ![held] =
                      Dropped([c EXCEPT !.ops = @ \o <<Op("disable", TRUE),
                                                       Op("read", FALSE)>>],
                              "end")]
               /\ failed' = "read"
               /\ pc' = "aborted"
               /\ held' = 0
               /\ UNCHANGED <<pending, reads>>
          ELSE /\ counters' = [counters EXCEPT ![held] =
                      [c EXCEPT !.ops = @ \o <<Op("disable", TRUE),
                                               Op("read", TRUE)>>,
                                !.state = "disabled",
                                !.ends = @ + 1]]
               /\ pending' = <<c.count % Modulus>>
               /\ reads' = Append(reads, c.count % Modulus)
               /\ pc' = "ran"
               /\ UNCHANGED <<held, failed>>
    /\ UNCHANGED <<built, mode, self, overflow_checks, nextId, total, sample,
                   exposed, fmt>>

\* end() with read().unwrap_or_default(): a failed read yields 0.
end_swallowing(disable_ok, read_ok) ==
    /\ pc = "ran"
    /\ LET c == counters[held]
       IN IF ~disable_ok
          THEN /\ counters' = [counters EXCEPT ![held] =
                      Dropped([c EXCEPT !.ops = Append(@, Op("disable", FALSE))],
                              "end")]
               /\ failed' = "disable"
               /\ pc' = "aborted"
               /\ UNCHANGED <<pending, reads>>
          ELSE /\ counters' = [counters EXCEPT ![held] =
                      Dropped([c EXCEPT !.ops = @ \o <<Op("disable", TRUE),
                                                       Op("read", read_ok)>>],
                              "end")]
               /\ failed' = IF read_ok THEN failed ELSE "read"
               /\ pending' = <<IF read_ok THEN c.count % Modulus ELSE 0>>
               /\ reads' = Append(reads,
                                  IF read_ok THEN c.count % Modulus ELSE 0)
               /\ pc' = "ended"
    /\ held' = 0
    /\ UNCHANGED <<built, mode, self, overflow_checks, nextId, total, sample,
                   exposed, fmt>>

\* counter.disable().unwrap(); counter.read().unwrap()
end(disable_ok, read_ok) ==
    /\ pc = "ran"
    /\ LET c == counters[held]
       IN IF ~disable_ok
          THEN /\ counters' = [counters EXCEPT ![held] =
                      Dropped([c EXCEPT !.ops = Append(@, Op("disable", FALSE))],
                              "end")]
               /\ failed' = "disable"
               /\ pc' = "aborted"
               /\ UNCHANGED <<pending, reads>>
          ELSE IF ~read_ok
          THEN /\ counters' = [counters EXCEPT ![held] =
                      Dropped([c EXCEPT !.ops = @ \o <<Op("disable", TRUE),
                                                       Op("read", FALSE)>>],
                              "end")]
               /\ failed' = "read"
               /\ pc' = "aborted"
               /\ UNCHANGED <<pending, reads>>
          ELSE /\ counters' = [counters EXCEPT ![held] =
                      Dropped([c EXCEPT !.ops = @ \o <<Op("disable", TRUE),
                                                       Op("read", TRUE)>>],
                              "end")]
               /\ pending' = <<c.count % Modulus>>
               /\ reads' = Append(reads, c.count % Modulus)
               /\ pc' = "ended"
               /\ UNCHANGED failed
    /\ held' = 0
    /\ UNCHANGED <<built, mode, self, overflow_checks, nextId, total, sample,
                   exposed, fmt>>

End == \E disable_ok, read_ok \in BOOLEAN : end(disable_ok, read_ok)

(***************************************************************************)
(* Accumulation: zero(), add(), to_f64(), formatter().                     *)
(***************************************************************************)
\* The harness starts accumulating from zero().
Zero ==
    /\ pc = "ready"
    /\ total' = zero
    /\ pc' = "idle"
    /\ UNCHANGED <<built, mode, self, overflow_checks, counters, nextId, held,
                   pending, reads, failed, sample, exposed, fmt>>

\* The harness accumulates the value end() returned: add(&total, &value).
Add ==
    /\ pc = "ended"
    /\ LET r == add(total, pending[1], overflow_checks)
       IN IF r = <<>>
          THEN /\ pc' = "aborted"
               /\ UNCHANGED <<total, pending>>
          ELSE /\ total' = r[1]
               /\ pending' = <<>>
               /\ pc' = "idle"
    /\ UNCHANGED <<built, mode, self, overflow_checks, counters, nextId, held,
                   reads, failed, sample, exposed, fmt>>

\* The harness converts the accumulated value for reporting.
ToF64 ==
    /\ pc = "idle"
    /\ sample' = <<to_f64(total)>>
    /\ pc' = "done"
    /\ UNCHANGED <<built, mode, self, overflow_checks, counters, nextId, held,
                   pending, total, reads, failed, exposed, fmt>>

\* formatter(): a reference to self.formatter.
Formatter ==
    /\ pc \in {"ready", "done"}
    /\ exposed = UnbuiltFormatter
    /\ exposed' = self.formatter
    /\ UNCHANGED <<pc, built, mode, self, overflow_checks, counters, nextId,
                   held, pending, total, reads, failed, sample, fmt>>

(***************************************************************************)
(* Formatter calls: values is the slice scaled in place.                   *)
(***************************************************************************)
ThroughputCounts == {0, 10, 50}

Throughputs ==
    [kind : {"Bytes", "BytesDecimal", "Elements"}, n : ThroughputCounts]

SampleValues == {F(0), F(100), F(200)}

Typicals == {F(0), F(100)}

Batches == UNION {[1 .. k -> SampleValues] : k \in 0 .. MaxBatch}

FmtFrame ==
    UNCHANGED <<pc, built, mode, self, overflow_checks, counters, nextId,
                held, pending, total, reads, failed, sample, exposed>>

ScaleValues(typicals, batches) ==
    /\ fmt = NoCall
    /\ \E typical \in typicals, values \in batches :
          LET r == scale_values(self.formatter, typical, values)
          IN fmt' = [op |-> "scale_values", typical |-> typical,
                     throughput |-> NoThroughput, input |-> values,
                     output |-> r.values, label |-> r.label]
    /\ FmtFrame

ScaleThroughputs(typicals, batches) ==
    /\ fmt = NoCall
    /\ \E typical \in typicals, throughput \in Throughputs,
          values \in batches :
          LET r == scale_throughputs(self.formatter, typical, throughput,
                                     values)
          IN fmt' = [op |-> "scale_throughputs", typical |-> typical,
                     throughput |-> throughput, input |-> values,
                     output |-> r.values, label |-> r.label]
    /\ FmtFrame

ScaleForMachines(batches) ==
    /\ fmt = NoCall
    /\ \E values \in batches :
          LET r == scale_for_machines(self.formatter, values)
          IN fmt' = [op |-> "scale_for_machines", typical |-> F(0),
                     throughput |-> NoThroughput, input |-> values,
                     output |-> r.values, label |-> r.label]
    /\ FmtFrame

\* The borrow of the slice ends; the caller is done with the scaled values.
Discard ==
    /\ fmt # NoCall
    /\ fmt' = NoCall
    /\ FmtFrame

\* After a run the harness formats the measured sample.
ReportValues == pc = "done" /\ ScaleValues({sample[1]}, {sample})
ReportThroughputs == pc = "done" /\ ScaleThroughputs({sample[1]}, {sample})
ReportForMachines == pc = "done" /\ ScaleForMachines({sample})

\* The formatter on its own, on any batch.
FormatValues == pc = "ready" /\ ScaleValues(Typicals, Batches)
FormatThroughputs == pc = "ready" /\ ScaleThroughputs(Typicals, Batches)
FormatForMachines == pc = "ready" /\ ScaleForMachines(Batches)

(***************************************************************************)
(* Specifications.                                                         *)
(***************************************************************************)
Construct == Default \/ \E m \in PerfMode : New(m)

Next ==
    \/ Construct
    \/ Zero
    \/ Start
    \/ Workload
    \/ End
    \/ Add
    \/ ToF64
    \/ Formatter
    \/ ReportValues
    \/ ReportThroughputs
    \/ ReportForMachines
    \/ Discard

Spec == Init /\ [][Next]_vars

NextFmt ==
    \/ Construct
    \/ Formatter
    \/ FormatValues
    \/ FormatThroughputs
    \/ FormatForMachines
    \/ Discard

SpecFmt == Init /\ [][NextFmt]_vars

(***************************************************************************)
(* Properties.                                                             *)
(***************************************************************************)
Ids == 1 .. MaxCounters

Allocated(i) == counters[i].state # "free"

OpNames == <<"open", "enable", "disable", "read">>

FullOps ==
    <<Op("open", TRUE), Op("enable", TRUE), Op("disable", TRUE),
      Op("read", TRUE)>>

\* start() returned counter i: it was opened and enabled.
Returned(i) ==
    /\ Len(counters[i].ops) >= 2
    /\ counters[i].ops[2] = Op("enable", TRUE)

\* The calls made on counter i are a prefix of open, enable, disable, read,
\* each made once, and only the last of them may have failed.
Linear(i) ==
    LET ops == counters[i].ops
    IN /\ Len(ops) <= 4
       /\ \A k \in 1 .. Len(ops) :
             /\ ops[k].op = OpNames[k]
             /\ k < Len(ops) => ops[k].ok

RECURSIVE SumSeq(_)
SumSeq(s) == IF s = <<>> THEN 0 ELSE s[1] + SumSeq(Tail(s))

\* C1 as stated: every counter returned by start() and passed to end() has
\* gone through open, enable, disable, read and was read exactly once,
\* whatever the OS failure pattern.
C1_Original ==
    \A i \in Ids :
        (Returned(i) /\ counters[i].ends >= 1) =>
            (counters[i].ops = FullOps /\ counters[i].ends = 1)

\* C1 amended: the calls on every counter are a prefix of open, enable,
\* disable, read, each made at most once with no retry; a counter is passed
\* to at most one end() call, which consumes it; it was disabled and read
\* exactly once whenever that end() returned a value, and only a failed
\* disable or read, which ends the run, cuts the sequence short.
C1_Lifecycle ==
    \A i \in Ids :
        Allocated(i) =>
            /\ Linear(i)
            /\ counters[i].ends <= 1
            /\ counters[i].ends = 1 =>
                  /\ Returned(i)
                  /\ counters[i].state = "closed"
                  /\ held # i
            /\ (counters[i].ends = 1 /\ counters[i].ops # FullOps) =>
                  /\ failed \in {"disable", "read"}
                  /\ pc = "aborted"
                  /\ i = nextId - 1
            /\ (counters[i].ends = 1 /\ failed = None) =>
                  counters[i].ops = FullOps
            /\ (Returned(i) /\ counters[i].ends = 0) =>
                  (held = i /\ pc \in {"started", "ran"})

C1_Witness ==
    \E i, j \in Ids :
        /\ counters[i].ops = FullOps
        /\ counters[i].ends = 1
        /\ counters[j].ops =
               <<Op("open", TRUE), Op("enable", TRUE), Op("disable", FALSE)>>
        /\ counters[j].ends = 1

C2_State ==
    /\ \A k \in 1 .. Len(reads) :
          /\ counters[k].ops = FullOps
          /\ reads[k] = counters[k].count % Modulus
    /\ \A i \in Ids : Allocated(i) => Linear(i)
    /\ failed # None =>
          /\ pc = "aborted"
          /\ pending = <<>>
          /\ held = 0
          /\ total = SumSeq(reads) % Modulus
          /\ \A i \in Ids :
                (Allocated(i) /\ i >= nextId - 1 /\ failed # "build") =>
                    ~counters[i].ops[Len(counters[i].ops)].ok
    /\ (\E i \in Ids : Allocated(i) /\ counters[i].ops # FullOps
                       /\ counters[i].state = "closed") =>
          failed # None

\* C2: a failed OS step (open or enable in start(), disable or read in
\* end()) ends the run at once: no value is returned for it, only values
\* actually read are ever accumulated, the failed step is not retried and
\* no step of any kind follows.
C2_FailureAborts == [](C2_State) /\ [][pc # "aborted"]_vars

C2_Witness ==
    /\ failed = "read"
    /\ Len(reads) >= 1
    /\ total = SumSeq(reads)
    /\ total > 0

\* C3 as stated: every released counter resource was released by an end()
\* call on it.
C3_Original ==
    \A i \in Ids :
        counters[i].state = "closed" =>
            (counters[i].closedBy = "end" /\ counters[i].ends = 1)

\* C3 amended: each start() allocates a resource never allocated before; a
\* counter that start() returned is released only by the end() call on it;
\* a counter whose enable failed is released by start() itself as its panic
\* unwinds; nothing else releases a counter.
C3_Release ==
    /\ nextId \in 1 .. (MaxCounters + 1)
    /\ \A i \in Ids :
          /\ Allocated(i) <=> i < nextId
          /\ Allocated(i) =>
                /\ counters[i].ops[1] = Op("open", TRUE)
                /\ \A k \in 2 .. Len(counters[i].ops) :
                      counters[i].ops[k].op # "open"
          /\ counters[i].state = "closed" =>
                \/ /\ counters[i].closedBy = "end"
                   /\ counters[i].ends = 1
                   /\ Returned(i)
                \/ /\ counters[i].closedBy = "start"
                   /\ counters[i].ends = 0
                   /\ counters[i].ops =
                          <<Op("open", TRUE), Op("enable", FALSE)>>
          /\ (Allocated(i) /\ counters[i].state # "closed") =>
                /\ counters[i].closedBy = None
                /\ counters[i].state = "enabled"
                /\ held = i

C3_Witness ==
    \E i, j \in Ids :
        /\ counters[i].state = "closed" /\ counters[i].closedBy = "end"
        /\ counters[j].state = "closed" /\ counters[j].closedBy = "start"

\* v / n for a finite v: the quotient o satisfies o * n = v when n # 0;
\* dividing by 0.0 gives NaN for 0.0 and +inf for a positive value.
IsQuotient(o, v, n) ==
    IF n = 0
    THEN o = (IF v.n = 0 THEN NaN ELSE Inf)
    ELSE /\ o.d > 0
         /\ GCD(o.n, o.d) = 1
         /\ o.n * v.d * n = v.n * o.d

\* C4: scale_throughputs divides every value of the batch by the declared
\* count, keeps length and order, ignores the typical value, and returns
\* the per-byte label for Bytes and BytesDecimal (same result for both) and
\* the per-element label for Elements.
C4_ScaleThroughputs ==
    fmt.op = "scale_throughputs" =>
        /\ Len(fmt.output) = Len(fmt.input)
        /\ \A i \in 1 .. Len(fmt.input) :
              IsQuotient(fmt.output[i], fmt.input[i], fmt.throughput.n)
        /\ fmt.throughput.kind \in {"Bytes", "BytesDecimal"} =>
              fmt.label = self.formatter.units \o "/byte"
        /\ fmt.throughput.kind = "Elements" =>
              fmt.label = self.formatter.units \o "/element"
        /\ (fmt.input = <<F(100), F(200)>> /\ fmt.throughput.n = 50
            /\ fmt.throughput.kind # "Elements") =>
              fmt.output = <<F(2), F(4)>>
        /\ (fmt.input = <<F(100)>> /\ fmt.throughput.n = 10) =>
              fmt.output = <<F(10)>>

C4_Witness ==
    /\ fmt.op = "scale_throughputs"
    /\ fmt.throughput = [kind |-> "BytesDecimal", n |-> 50]
    /\ fmt.input = <<F(100), F(200)>>
    /\ fmt.output = <<F(2), F(4)>>
    /\ fmt.typical = F(100)
    /\ fmt.label = "cache refs/byte"

RawUnits ==
    {"instructions", "cycles", "branches", "branch misses", "cache refs",
     "cache misses", "bus cycles"}

\* C5: scale_values and scale_for_machines leave the values unchanged and
\* return the raw unit label, whatever the values and the typical value.
C5_NoRescale ==
    fmt.op \in {"scale_values", "scale_for_machines"} =>
        /\ fmt.output = fmt.input
        /\ fmt.label = self.formatter.units
        /\ fmt.label \in RawUnits

C5_Witness ==
    /\ fmt.op = "scale_values"
    /\ fmt.typical = F(100)
    /\ fmt.input = <<F(100), F(200)>>
    /\ fmt.output = <<F(100), F(200)>>
    /\ fmt.label = "branch misses"

\* The selector each kind is said to map to.
ClaimedSelector ==
    ("Instructions" :> "INSTRUCTIONS") @@ ("Cycles" :> "CPU_CYCLES")
    @@ ("Branches" :> "BRANCH_INSTRUCTIONS")
    @@ ("BranchMisses" :> "BRANCH_MISSES")
    @@ ("CacheRefs" :> "CACHE_REFERENCES")
    @@ ("CacheMisses" :> "CACHE_MISSES")
    @@ ("BusCycles" :> "BUS_CYCLES") @@ ("RefCycles" :> "REF_CPU_CYCLES")

\* C6: each of the eight kinds has its own selector, the one named for it,
\* and a unit triple whose per-byte and per-element labels are the raw unit
\* followed by "/byte" and "/element".
C6_Registry ==
    /\ Cardinality(PerfMode) = 8
    /\ DOMAIN ClaimedSelector = PerfMode
    /\ built = "new" =>
          /\ mode \in PerfMode
          /\ self.event = ClaimedSelector[mode]
          /\ self.formatter.units \in RawUnits
          /\ self.formatter.throughput_bytes =
                 self.formatter.units \o "/byte"
          /\ self.formatter.throughput_elements =
                 self.formatter.units \o "/element"

C6_Witness ==
    /\ built = "new"
    /\ mode = "RefCycles"
    /\ self.event = "REF_CPU_CYCLES"
    /\ self.formatter.throughput_elements = "cycles/element"

\* C7: a backend built by default() is the backend new(Instructions)
\* builds, so its counters count instructions and its labels are those of
\* instructions.
C7_Default ==
    built = "default" =>
        /\ self = PerfMeasurement_new("Instructions")
        /\ self.event = "INSTRUCTIONS"
        /\ \A i \in Ids : Allocated(i) => counters[i].kind = "INSTRUCTIONS"
        /\ exposed \in {UnbuiltFormatter, PerfMode_formatter("Instructions")}
        /\ fmt.label \in {None, "instructions", "instructions/byte",
                          "instructions/element"}

C7_Witness ==
    /\ built = "default"
    /\ \E i \in Ids : counters[i].ops = FullOps
    /\ exposed.units = "instructions"
    /\ fmt.label = "instructions/byte"

\* C8: zero() is 0 and add(zero(), x) = x = add(x, zero()) for every x,
\* with or without overflow checks; the first accumulated value is the
\* first read.
C8_ZeroIdentity ==
    /\ zero = 0
    /\ \A x \in Word, c \in BOOLEAN :
          add(zero, x, c) = <<x>> /\ add(x, zero, c) = <<x>>
    /\ (Len(reads) = 1 /\ pc = "idle") => total = reads[1]

C8_Witness ==
    /\ Len(reads) = 1
    /\ pc = "idle"
    /\ total = reads[1]
    /\ total = MaxEvents

\* C9 as stated: the accumulated total is the integer sum of the raw reads.
C9_Original ==
    (pc \in {"idle", "done"}) => total = SumSeq(reads)

Perms(s) ==
    {[i \in 1 .. Len(s) |-> s[p[i]]] :
        p \in {q \in [1 .. Len(s) -> 1 .. Len(s)] :
                  \A a, b \in 1 .. Len(s) : a # b => q[a] # q[b]}}

\* Every total a grouping of s can give with the wrapping add.
RECURSIVE Groupings(_)
Groupings(s) ==
    IF Len(s) = 0 THEN {zero}
    ELSE IF Len(s) = 1 THEN {s[1]}
    ELSE UNION {{add(a, b, FALSE)[1] :
                    a \in Groupings(SubSeq(s, 1, k)),
                    b \in Groupings(SubSeq(s, k + 1, Len(s)))} :
                k \in 1 .. (Len(s) - 1)}

\* C9 amended: the accumulated total is the sum of the raw reads modulo
\* 2^64, hence exactly their integer sum whenever that sum is below 2^64;
\* in a build with overflow checks add() panics instead of exceeding it;
\* every order and grouping of the reads gives the same total.
C9_Accumulate ==
    (pc \in {"idle", "done"}) =>
        /\ total = SumSeq(reads) % Modulus
        /\ SumSeq(reads) < Modulus => total = SumSeq(reads)
        /\ overflow_checks => SumSeq(reads) < Modulus
        /\ pc = "idle" => \A p \in Perms(reads) : Groupings(p) = {total}

C9_Witness ==
    /\ pc = "idle"
    /\ Len(reads) = 3
    /\ reads[1] # reads[2]
    /\ SumSeq(reads) < Modulus
    /\ total = SumSeq(reads)
    /\ total > MaxEvents

C10_State ==
    built = "new" =>
        /\ self.event = ClaimedSelector[mode]
        /\ self.formatter = PerfMode_formatter(mode)
        /\ \A i \in Ids :
              Allocated(i) => counters[i].kind = ClaimedSelector[mode]
        /\ exposed \in {UnbuiltFormatter, PerfMode_formatter(mode)}

\* C10: construction touches no OS resource and cannot fail; after it no
\* operation changes the backend, every counter is opened for the event of
\* the kind given to new(), and formatter() exposes that kind's units.
C10_Immutable ==
    /\ [](C10_State)
    /\ [][pc # "new" => (self' = self /\ mode' = mode /\ built' = built)]_vars
    /\ [][pc = "new" => (/\ pc' = "ready"
                         /\ counters' = counters
                         /\ nextId' = nextId
                         /\ failed' = None)]_vars

C10_Witness ==
    /\ built = "new"
    /\ mode = "Branches"
    /\ pc = "done"
    /\ \E i \in Ids : counters[i].kind = "BRANCH_INSTRUCTIONS"
                      /\ counters[i].ops = FullOps
    /\ exposed = PerfMode_formatter("Branches")

====
